---- MODULE Spec2Model ----
(***************************************************************************)
(* hrdups (src/hrdups.cpp, lines 1-258): find duplicate files under the    *)
(* given roots and hard-link or remove them.                               *)
(*                                                                         *)
(* Lines 260-392 of the file hold an earlier version of the program (one   *)
(* hash per file, no attribute check, no remove mode); it is not modelled. *)
(* Not modelled either: the verbose output and the group counter.          *)
(*                                                                         *)
(* The model has two phases, as main() has: the build phase (traverse,     *)
(* lines 94-123, driven by the loop of lines 165-173) fills the            *)
(* size -> hash -> file-names map; the mutation phase (lines 175-256)      *)
(* walks the map and removes / links the duplicates.                       *)
(***************************************************************************)
EXTENDS Integers, Sequences, FiniteSets, TLC

\* ------------------------------------------------------------------ bounds
MaxRoots == 2        \* at most this many root arguments on the command line
MaxSize == 2         \* readable non-empty files have 1..MaxSize bytes
NumDigests == 2      \* distinct SHA-256 digests among the files

\* The value fsize() returns for a file it cannot open: tellg() on a failed
\* stream is -1, converted to size_t.  Any value above MaxSize + 1 plays the
\* role of 2^64 - 1 here.
SIZE_MAX == 2147483647

\* ------------------------------------------------------------- file names
\* A path is the sequence of its components; operator/ appends a component
\* and parent_path() drops the last one.
D == <<"d">>
S == <<"d", "s">>
T == <<"d", "s", "t">>
A == <<"d", "a">>
B == <<"d", "s", "t", "b">>
C == <<"d", "s", "t", "c">>
L == <<"d", "l">>

AllDirs == {D, S, T}
AllFiles == {A, B, C}
Symlinks == {L}
RootDirs == {D, T}

parent_path(p) == SubSeq(p, 1, Len(p) - 1)

\* the sentinel key "" of the first, not yet hashed, entry of a bucket
Unhashed == 0

VARIABLES
    keep, pretend, remove, paths,       \* main: the parsed command line
    dirs, links, inode, noread,         \* the filesystem
    fs0,                                \* the filesystem as it was at start
    pc,                                 \* "build", "mutate", "done", "aborted"
    pi, stack,                          \* build: root index, open iterators
    map,                                \* traverse_map_t
    hashed,                             \* how often fhash() digested each file
    warned,                             \* the catch block of line 171 ran
    gi, fi,                             \* mutation: group and file cursor
    saved,                              \* bytes saved so far
    log                                 \* system calls made and lines reported

vars == <<keep, pretend, remove, paths, dirs, links, inode, noread, fs0, pc,
          pi, stack, map, hashed, warned, gi, fi, saved, log>>

\* -------------------------------------------------------------- filesystem
\* links: existing regular-file path -> inode number
\* inode: inode number -> [size, digest, readable, uid, gid, mode, dev]
\* dirs:  existing directories;  noread: directories that cannot be opened

Entries(ds, ls, dir) ==
    {p \in ds \cup DOMAIN ls \cup Symlinks : Len(p) > 1 /\ parent_path(p) = dir}

CanOpenDir(dir) == dir \in dirs /\ dir \notin noread

I(p) == inode[links[p]]

\* fsize (lines 20-25): the size, or SIZE_MAX when the file cannot be opened
fsize(p) == IF I(p).readable THEN I(p).size ELSE SIZE_MAX

\* fhash (lines 32-75): throws when the file cannot be opened (line 36)
fhashThrows(p) == ~I(p).readable
fhash(p) == I(p).digest

\* --------------------------------------------------------------- the map
\* map: size -> bucket;  bucket: hash key -> sequence of file names.
\* Both are std::map, so operator[] on a missing key yields an empty value.
EmptyBucket == [h \in {} |-> <<>>]
EmptyMap == [s \in {} |-> EmptyBucket]

Bucket(m, size) == IF size \in DOMAIN m THEN m[size] ELSE EmptyBucket
Names(b, h) == IF h \in DOMAIN b THEN b[h] ELSE <<>>
WithNames(b, h, names) ==
    [k \in DOMAIN b \cup {h} |-> IF k = h THEN names ELSE b[k]]
WithBucket(m, size, b) ==
    [k \in DOMAIN m \cup {size} |-> IF k = size THEN b ELSE m[k]]

\* line 108: the first entry of a size is stored under "" without a hash
InsertUnhashed(b, e) == WithNames(b, Unhashed, Append(Names(b, Unhashed), e))

\* line 113: same_size_map.begin()->second, and its element 0
FirstNames(b) == b[CHOOSE k \in DOMAIN b : \A j \in DOMAIN b : k <= j]

\* the first entry is left under the key it has
RehashSkipped(b) == b

\* lines 113-115: the only list of the bucket moves to the key fhash(list[0])
RehashFirst(b) ==
    WithNames(EmptyBucket, fhash(FirstNames(b)[1]), FirstNames(b))

\* line 117
InsertHashed(b, e) == WithNames(b, fhash(e), Append(Names(b, fhash(e)), e))

\* line 105-111: the branch is chosen on the number of hash keys of the bucket
NeedsRehash(b) == Cardinality(DOMAIN b) = 1

\* Lines 102-119 for the regular file e: the map afterwards, the files
\* fhash() digested, and whether fhash() threw.
Collect(m, e) ==
    LET size == fsize(e)
        b == Bucket(m, size)
        count == Cardinality(DOMAIN b)
    IN  IF size = 0 THEN [map |-> m, hashes |-> <<>>, thrown |-> FALSE]
        ELSE IF count = 0
        THEN [map |-> WithBucket(m, size, InsertUnhashed(b, e)),
              hashes |-> <<>>, thrown |-> FALSE]
        ELSE IF NeedsRehash(b) /\ fhashThrows(FirstNames(b)[1])
        THEN \* line 114 has cleared the bucket, the moved list is lost
             [map |-> WithBucket(m, size, EmptyBucket),
              hashes |-> <<>>, thrown |-> TRUE]
        ELSE LET b1 == IF NeedsRehash(b) THEN RehashFirst(b) ELSE b
                 h1 == IF NeedsRehash(b) THEN <<FirstNames(b)[1]>> ELSE <<>>
             IN  IF fhashThrows(e)
                 THEN [map |-> WithBucket(m, size, b1),
                       hashes |-> h1, thrown |-> TRUE]
                 ELSE [map |-> WithBucket(m, size, InsertHashed(b1, e)),
                       hashes |-> Append(h1, e), thrown |-> FALSE]

RECURSIVE Count(_, _)
Count(h, hs) ==
    IF hs = <<>> THEN h
    ELSE Count([h EXCEPT ![Head(hs)] = @ + 1], Tail(hs))

\* ------------------------------------------------------------ build phase
Top == stack[Len(stack)]
Advance(e) == [stack EXCEPT ![Len(stack)].todo = @ \ {e}]

\* the directory the next call of traverse() is for: the next root (line
\* 168) or a directory entry of the innermost iterator (line 99)
ToTraverse ==
    IF stack = <<>>
    THEN IF pi < Len(paths) THEN {paths[pi + 1]} ELSE {}
    ELSE Top.todo \cap dirs

Enter(d) ==
    IF stack = <<>> THEN <<[dir |-> d, todo |-> Entries(dirs, links, d)]>>
    ELSE Append(Advance(d), [dir |-> d, todo |-> Entries(dirs, links, d)])

\* lines 175-177: the mutation phase starts
StartMutation ==
    /\ pc' = "mutate"
    /\ stack' = <<>>
    /\ gi' = 1 /\ fi' = 2 /\ saved' = 0

\* line 95: traverse(d) opens its directory iterator
Traverse(d) ==
    /\ pc = "build" /\ d \in ToTraverse /\ CanOpenDir(d)
    /\ stack' = Enter(d)
    /\ pi' = IF stack = <<>> THEN pi + 1 ELSE pi
    /\ UNCHANGED <<keep, pretend, remove, paths, dirs, links, inode, noread,
                   fs0, pc, map, hashed, warned, gi, fi, saved, log>>

\* line 95 throws filesystem_error; caught at line 171
TraverseThrows(d) ==
    /\ pc = "build" /\ d \in ToTraverse /\ ~CanOpenDir(d)
    /\ warned' = TRUE
    /\ pi' = IF stack = <<>> THEN pi + 1 ELSE pi
    /\ StartMutation
    /\ UNCHANGED <<keep, pretend, remove, paths, dirs, links, inode, noread,
                   fs0, map, hashed, log>>

\* line 97: a symbolic link is skipped
SkipSymlink(e) ==
    /\ pc = "build" /\ stack # <<>> /\ e \in Top.todo /\ e \in Symlinks
    /\ stack' = Advance(e)
    /\ UNCHANGED <<keep, pretend, remove, paths, dirs, links, inode, noread,
                   fs0, pc, pi, map, hashed, warned, gi, fi, saved, log>>

\* lines 101-119 without an exception
VisitFile(e) ==
    /\ pc = "build" /\ stack # <<>> /\ e \in Top.todo /\ e \in DOMAIN links
    /\ ~Collect(map, e).thrown
    /\ map' = Collect(map, e).map
    /\ hashed' = Count(hashed, Collect(map, e).hashes)
    /\ stack' = Advance(e)
    /\ UNCHANGED <<keep, pretend, remove, paths, dirs, links, inode, noread,
                   fs0, pc, pi, warned, gi, fi, saved, log>>

\* lines 101-119 when fhash() throws (line 38); caught at line 171
HashThrows(e) ==
    /\ pc = "build" /\ stack # <<>> /\ e \in Top.todo /\ e \in DOMAIN links
    /\ Collect(map, e).thrown
    /\ map' = Collect(map, e).map
    /\ hashed' = Count(hashed, Collect(map, e).hashes)
    /\ warned' = TRUE
    /\ StartMutation
    /\ UNCHANGED <<keep, pretend, remove, paths, dirs, links, inode, noread,
                   fs0, pi, log>>

\* line 123: the iterator is exhausted, traverse() returns
Return ==
    /\ pc = "build" /\ stack # <<>> /\ Top.todo = {}
    /\ stack' = SubSeq(stack, 1, Len(stack) - 1)
    /\ UNCHANGED <<keep, pretend, remove, paths, dirs, links, inode, noread,
                   fs0, pc, pi, map, hashed, warned, gi, fi, saved, log>>

\* line 169: every root has been traversed
BuildDone ==
    /\ pc = "build" /\ stack = <<>> /\ pi = Len(paths)
    /\ StartMutation
    /\ UNCHANGED <<keep, pretend, remove, paths, dirs, links, inode, noread,
                   fs0, pi, map, hashed, warned, log>>

NextBuild ==
    \/ \E d \in AllDirs : Traverse(d)
    \/ \E d \in AllDirs : TraverseThrows(d)
    \/ \E e \in Symlinks : SkipSymlink(e)
    \/ \E e \in AllFiles : VisitFile(e)
    \/ \E e \in AllFiles : HashThrows(e)
    \/ Return
    \/ BuildDone

\* --------------------------------------------------------- mutation phase
\* lines 179-180: std::map iterates in key order, by size and then by hash
GroupKeys(m) == UNION {{<<s, h>> : h \in DOMAIN m[s]} : s \in DOMAIN m}
Before(x, y) == x[1] < y[1] \/ (x[1] = y[1] /\ x[2] <= y[2])

RECURSIVE Sorted(_)
Sorted(K) ==
    IF K = {} THEN <<>>
    ELSE LET k == CHOOSE x \in K : \A y \in K : Before(x, y)
         IN  <<k>> \o Sorted(K \ {k})

Groups == Sorted(GroupKeys(map))
size == Groups[gi][1]
file_names == map[Groups[gi][1]][Groups[gi][2]]
base == file_names[1]
file == file_names[fi]

\* stat() succeeds on a path that exists
CanStat(ls, p) == p \in DOMAIN ls

\* the group id is not compared
compare_without_group(a, b) ==
    /\ a \in DOMAIN links /\ b \in DOMAIN links
    /\ I(a).uid = I(b).uid /\ I(a).mode = I(b).mode /\ I(a).dev = I(b).dev

\* lines 83-89
compare_file_attributes(a, b) ==
    /\ CanStat(links, a) /\ CanStat(links, b)
    /\ I(a).uid = I(b).uid /\ I(a).gid = I(b).gid
    /\ I(a).mode = I(b).mode /\ I(a).dev = I(b).dev

\* the pretend flag is not consulted
LiveAlways == TRUE

\* line 201
LiveMode == ~pretend

\* the exception is swallowed and the loop goes on
Swallowed == "mutate"

\* lines 205, 222, 237: the exception is not caught, the process terminates
Uncaught == "aborted"

\* std::remove of a file, create_hard_link, chown + chmod
Unlink(ls, p) == [q \in DOMAIN ls \ {p} |-> ls[q]]
create_hard_link(ls, to, new) ==
    [q \in DOMAIN ls \cup {new} |-> IF q = new THEN ls[to] ELSE ls[q]]
CanLink(ls, to, new) == to \in DOMAIN ls /\ new \notin DOMAIN ls
Reown(tab, n, st) ==
    [tab EXCEPT ![n].uid = st.uid, ![n].gid = st.gid, ![n].mode = st.mode]

\* pruning goes on to the parent of the pruned directory
PruneUpward(ds, ls, f) ==
    IF parent_path(f) \in ds /\ Entries(ds, ls, parent_path(f)) = {}
    THEN {parent_path(f)} \cup
         {g \in {parent_path(parent_path(f))} :
             g \in ds /\ Entries(ds \ {parent_path(f)}, ls, g) = {}}
    ELSE {}

\* lines 211-217: the directory to prune after removing f, if any
PruneDir(ds, ls, f) ==
    IF parent_path(f) \in ds /\ Entries(ds, ls, parent_path(f)) = {}
    THEN {parent_path(f)} ELSE {}

Entry(op, p, b, ok) == [op |-> op, path |-> p, base |-> b, ok |-> ok]

\* the loop over the files of a group ends one element early
NextPairShort ==
    IF fi + 1 < Len(file_names) THEN gi' = gi /\ fi' = fi + 1
    ELSE gi' = gi + 1 /\ fi' = 2

\* lines 193, 179-180: on to the next file, or to the next group
NextPair ==
    IF fi < Len(file_names) THEN gi' = gi /\ fi' = fi + 1
    ELSE gi' = gi + 1 /\ fi' = 2

AtGroup == pc = "mutate" /\ gi <= Len(Groups)
AtPair == AtGroup /\ Len(file_names) >= 2

\* line 184
SkipGroup ==
    /\ AtGroup /\ Len(file_names) < 2
    /\ gi' = gi + 1 /\ fi' = 2
    /\ UNCHANGED <<keep, pretend, remove, paths, dirs, links, inode, noread,
                   fs0, pc, pi, stack, map, hashed, warned, saved, log>>

\* lines 249-251
Mismatch ==
    /\ AtPair /\ ~compare_file_attributes(base, file)
    /\ log' = Append(log, Entry("mismatch", file, base, TRUE))
    /\ NextPair
    /\ UNCHANGED <<keep, pretend, remove, paths, dirs, links, inode, noread,
                   fs0, pc, pi, stack, map, hashed, warned, saved>>

\* lines 200-201, 247 in pretend mode
Pretend ==
    /\ AtPair /\ compare_file_attributes(base, file) /\ ~LiveMode
    /\ saved' = saved + size
    /\ NextPair
    /\ UNCHANGED <<keep, pretend, remove, paths, dirs, links, inode, noread,
                   fs0, pc, pi, stack, map, hashed, warned, log>>

\* lines 202-206: std::remove fails
FatalRemove ==
    /\ AtPair /\ compare_file_attributes(base, file) /\ LiveMode
    /\ log' = Append(log, Entry("unlink", file, base, FALSE))
    /\ pc' = Uncaught
    /\ UNCHANGED <<keep, pretend, remove, paths, dirs, links, inode, noread,
                   fs0, pi, stack, map, hashed, warned, gi, fi, saved>>

\* lines 202, 208-230, 247: remove mode
Remove ==
    /\ AtPair /\ compare_file_attributes(base, file) /\ LiveMode /\ remove
    /\ links' = Unlink(links, file)
    /\ LET gone == IF keep THEN {} ELSE PruneDir(dirs, links', file)
       IN  /\ dirs' = dirs \ gone
           /\ log' = log \o <<Entry("unlink", file, base, TRUE)>>
                         \o IF gone = {} THEN <<>>
                            ELSE <<Entry("rmdir", parent_path(file), base, TRUE)>>
    /\ saved' = saved + size
    /\ NextPair
    /\ UNCHANGED <<keep, pretend, remove, paths, inode, noread,
                   fs0, pc, pi, stack, map, hashed, warned>>

\* lines 219-223: the empty directory cannot be removed
FatalPrune ==
    /\ AtPair /\ compare_file_attributes(base, file) /\ LiveMode /\ remove
    /\ ~keep /\ PruneDir(dirs, Unlink(links, file), file) # {}
    /\ links' = Unlink(links, file)
    /\ log' = log \o <<Entry("unlink", file, base, TRUE),
                       Entry("rmdir", parent_path(file), base, FALSE)>>
    /\ pc' = Uncaught
    /\ UNCHANGED <<keep, pretend, remove, paths, dirs, inode, noread,
                   fs0, pi, stack, map, hashed, warned, gi, fi, saved>>

\* lines 202, 231-244, 247: hardlink mode
Hardlink ==
    /\ AtPair /\ compare_file_attributes(base, file) /\ LiveMode /\ ~remove
    /\ CanLink(Unlink(links, file), base, file)
    /\ links' = create_hard_link(Unlink(links, file), base, file)
    /\ inode' = IF CanStat(links', base)
                THEN Reown(inode, links'[file], inode[links'[base]])
                ELSE inode
    /\ log' = log \o <<Entry("unlink", file, base, TRUE),
                       Entry("link", file, base, TRUE)>>
    /\ saved' = saved + size
    /\ NextPair
    /\ UNCHANGED <<keep, pretend, remove, paths, dirs, noread,
                   fs0, pc, pi, stack, map, hashed, warned>>

\* lines 233-238: create_hard_link fails, after the duplicate was removed
FatalLink ==
    /\ AtPair /\ compare_file_attributes(base, file) /\ LiveMode /\ ~remove
    /\ links' = Unlink(links, file)
    /\ log' = log \o <<Entry("unlink", file, base, TRUE),
                       Entry("link", file, base, FALSE)>>
    /\ pc' = Uncaught
    /\ UNCHANGED <<keep, pretend, remove, paths, dirs, inode, noread,
                   fs0, pi, stack, map, hashed, warned, gi, fi, saved>>

\* line 256
Finish ==
    /\ pc = "mutate" /\ gi > Len(Groups)
    /\ pc' = "done"
    /\ UNCHANGED <<keep, pretend, remove, paths, dirs, links, inode, noread,
                   fs0, pi, stack, map, hashed, warned, gi, fi, saved, log>>

NextMutate ==
    \/ SkipGroup
    \/ Mismatch
    \/ Pretend
    \/ FatalRemove
    \/ Remove
    \/ FatalPrune
    \/ Hardlink
    \/ FatalLink
    \/ Finish

Next == NextBuild \/ NextMutate

\* ------------------------------------------------------------------- Init
\* What a file can be: empty, unreadable, or readable with a size and digest.
Attr0 == [uid |-> 0, gid |-> 0, mode |-> 0, dev |-> 0]
AttrKinds ==
    {Attr0, [Attr0 EXCEPT !.uid = 1], [Attr0 EXCEPT !.gid = 1],
     [Attr0 EXCEPT !.mode = 1], [Attr0 EXCEPT !.dev = 1]}

Content(sz, dg, rd) == [size |-> sz, digest |-> dg, readable |-> rd]
Plain == {Content(s, g, TRUE) : s \in 1..MaxSize, g \in 1..NumDigests}
Empty == Content(0, 1, TRUE)
Unreadable == Content(1, 1, FALSE)

File(c, a) ==
    [size |-> c.size, digest |-> c.digest, readable |-> c.readable,
     uid |-> a.uid, gid |-> a.gid, mode |-> a.mode, dev |-> a.dev]

RECURSIVE Lists(_)
Lists(n) ==
    IF n = 0 THEN {<<>>}
    ELSE Lists(n - 1) \cup
         {Append(r, d) : r \in Lists(n - 1), d \in RootDirs}
RootLists == Lists(MaxRoots) \ {<<>>}

\* a, b and c have the contents ca, cb, cc; c has the attributes ac and the
\* inode ic (2 when c is a hard link to b already); nr cannot be opened
InitRun(ca, cb, cc, ac, nr, ic) ==
    /\ dirs = AllDirs
    /\ links = (A :> 1) @@ (B :> 2) @@ (C :> ic)
    /\ inode = <<File(ca, Attr0), File(cb, Attr0), File(cc, ac)>>
    /\ noread = nr
    /\ fs0 = [dirs |-> dirs, links |-> links, inode |-> inode]
    /\ pc = "build" /\ pi = 0 /\ stack = <<>>
    /\ map = EmptyMap
    /\ hashed = [f \in AllFiles |-> 0]
    /\ warned = FALSE
    /\ gi = 0 /\ fi = 0 /\ saved = 0
    /\ log = <<>>

\* One thing at most is odd about a filesystem: an attribute of c, c is
\* unreadable, a directory cannot be opened, or c is a hard link to b.
Oddities ==
    {<<ac, TRUE, {}, 3>> : ac \in AttrKinds}
        \cup {<<Attr0, FALSE, {}, 3>>, <<Attr0, TRUE, {S}, 3>>,
              <<Attr0, TRUE, {T}, 3>>, <<Attr0, TRUE, {}, 2>>}

\* whole runs: every mode and root list; b has the size of a, c its digest
Init ==
    /\ keep \in BOOLEAN /\ pretend \in BOOLEAN /\ remove \in BOOLEAN
    /\ paths \in RootLists
    /\ \E g \in 1..NumDigests, s \in 1..MaxSize, odd \in Oddities :
          InitRun(Content(1, 1, TRUE), Content(1, g, TRUE),
                  Content(s, 1, odd[2]), odd[1], odd[3], odd[4])

Spec == Init /\ [][Next]_vars

\* the build phase alone, over every combination of file contents
InitBuild ==
    /\ keep = FALSE /\ pretend = FALSE /\ remove = FALSE
    /\ paths \in RootLists
    /\ \E ca \in Plain, cb \in Plain \cup {Unreadable},
          cc \in Plain \cup {Unreadable, Empty}, nr \in {{}, {S}, {T}} :
          InitRun(ca, cb, cc, Attr0, nr, 3)

SpecBuild == InitBuild /\ [][NextBuild]_vars

\* ================================================================= claims
IsPrefix(d, p) == Len(d) <= Len(p) /\ SubSeq(p, 1, Len(d)) = d
UnderRoot(p) == \E n \in 1..Len(paths) : IsPrefix(paths[n], p)
Lists0 == {map[k[1]][k[2]] : k \in GroupKeys(map)}
DupLists == {l \in Lists0 : Len(l) >= 2}
Member(f, l) == \E n \in 1..Len(l) : l[n] = f

\* the attributes stat() reported for p before the run
Stat0(p) == fs0.inode[fs0.links[p]]
SameAttributes(x, y) ==
    x.uid = y.uid /\ x.gid = y.gid /\ x.mode = y.mode /\ x.dev = y.dev

\* C1: the base of a duplicate group is never mutated: once the mutation
\* phase runs, and after it ended or aborted, every base path (element 0 of
\* a list of two or more names) still exists and still is the file, with the
\* content, it was before the run -- for every root list and mode.
C1_BaseNeverMutated ==
    pc # "build" =>
        \A l \in DupLists :
            /\ l[1] \in DOMAIN links
            /\ links[l[1]] = fs0.links[l[1]]
            /\ inode[links[l[1]]].size = Stat0(l[1]).size
            /\ inode[links[l[1]]].digest = Stat0(l[1]).digest

\* C2: in pretend mode the filesystem is untouched, whatever -r and -k are:
\* no file removed, no link created, no owner or mode changed, no directory
\* removed; the filesystem always equals the one before the run.
C2_PretendUntouched ==
    pretend =>
        /\ dirs = fs0.dirs /\ links = fs0.links /\ inode = fs0.inode
        /\ \A n \in 1..Len(log) : log[n].op = "mismatch"

C2_Witness ==
    /\ pretend /\ remove /\ ~keep /\ pc = "done" /\ saved > 0
    /\ \E l \in DupLists : parent_path(l[2]) = T

\* What a pretend run over the same map reports: a pretend run never changes
\* the filesystem (C2), so every pair is compared as it was before the run.
RECURSIVE DryList(_, _, _)
DryList(l, n, sz) ==
    IF n > Len(l) THEN 0
    ELSE (IF SameAttributes(Stat0(l[1]), Stat0(l[n])) THEN sz ELSE 0)
             + DryList(l, n + 1, sz)

RECURSIVE DryFrom(_)
DryFrom(g) ==
    IF g > Len(Groups) THEN 0
    ELSE DryList(map[Groups[g][1]][Groups[g][2]], 2, Groups[g][1])
             + DryFrom(g + 1)

DryRunSaved == DryFrom(1)

\* the pretend run of the model does report DryRunSaved
DryRunReports == (pc = "done" /\ pretend) => saved = DryRunSaved

\* C3: the bytes-saved total of a live run that completes equals the total
\* the pretend run on the same initial filesystem and roots reports.
C3_DryEqualsLive == (pc = "done" /\ ~pretend) => saved = DryRunSaved

\* C4: after a live hardlink-mode run that completes, every non-base member
\* of a duplicate group whose attributes matched the base exists, is the
\* same inode as the base, and has the owner, group, mode and device of it.
C4_HardlinkPostcondition ==
    (pc = "done" /\ ~pretend /\ ~remove) =>
        \A l \in DupLists : \A n \in 2..Len(l) :
            SameAttributes(Stat0(l[1]), Stat0(l[n])) =>
                /\ l[1] \in DOMAIN links /\ l[n] \in DOMAIN links
                /\ links[l[n]] = links[l[1]]
                /\ SameAttributes(inode[links[l[n]]], inode[links[l[1]]])

C4_Witness ==
    /\ pc = "done" /\ ~pretend /\ ~remove
    /\ \E l \in DupLists :
           /\ Len(l) >= 3 /\ l[2] # l[3]
           /\ fs0.links[l[3]] # fs0.links[l[1]]
           /\ links[l[3]] = links[l[1]] /\ links[l[2]] = links[l[1]]

\* C5: grouping is exact: when the build completes without an error, two
\* readable non-empty regular files under the roots are in the same list of
\* names iff they have the same size and the same digest (so a file is in a
\* list, files of distinct sizes never share one, and the members of a list
\* have equal digests), whatever the order of discovery.
Discovered ==
    {f \in DOMAIN links :
        UnderRoot(f) /\ inode[links[f]].readable /\ inode[links[f]].size > 0}

C5_GroupingExact ==
    (pc = "mutate" /\ ~warned) =>
        \A f \in Discovered, g \in Discovered :
            (\E l \in Lists0 : Member(f, l) /\ Member(g, l))
                <=> /\ inode[links[f]].size = inode[links[g]].size
                    /\ inode[links[f]].digest = inode[links[g]].digest

C5_Witness ==
    /\ pc = "mutate" /\ ~warned /\ Discovered = AllFiles
    /\ \E l \in Lists0 : Member(A, l) /\ Member(B, l) /\ ~Member(C, l)
    /\ inode[links[A]].size = inode[links[C]].size

\* C6: during a build the content hash is computed at most once per file,
\* for any number and order of files of a size; and for a size that never
\* has more than one member no hash is computed.
C6_HashAtMostOnce ==
    /\ \A f \in AllFiles : hashed[f] <= 1
    /\ \A s \in DOMAIN map : \A h \in DOMAIN map[s] :
           (DOMAIN map[s] = {h} /\ Len(map[s][h]) = 1) =>
               hashed[map[s][h][1]] = 0

\* C7: a file that cannot be hashed or a directory that cannot be iterated
\* costs only itself: when the mutation phase starts, every other readable
\* non-empty file under a root is in the map.
Blocked(f) ==
    \A n \in 1..Len(paths) :
        IsPrefix(paths[n], f) =>
            \E d \in noread : IsPrefix(paths[n], d) /\ IsPrefix(d, f)

C7_BuildErrorsAreLocal ==
    pc # "build" =>
        \A f \in Discovered :
            ~Blocked(f) => \E l \in Lists0 : Member(f, l)

\* C8: attribute gating: when the pair at hand differs in owner, group, mode
\* or device, or one of its paths cannot be stat'ed, the step that handles
\* it changes nothing in the filesystem (no removal, no link, no pruning),
\* adds nothing to the total, reports the mismatch once, and goes on to the
\* next pair.
PairDiffers ==
    \/ base \notin DOMAIN links \/ file \notin DOMAIN links
    \/ ~SameAttributes(inode[links[base]], inode[links[file]])

C8_AttributeGating ==
    [][(AtPair /\ PairDiffers) =>
          /\ links' = links /\ dirs' = dirs /\ inode' = inode
          /\ saved' = saved
          /\ log' = Append(log, Entry("mismatch", file, base, TRUE))
          /\ pc' = "mutate"
          /\ <<gi', fi'>> = IF fi < Len(file_names) THEN <<gi, fi + 1>>
                            ELSE <<gi + 1, 2>>]_vars

C8_Witness ==
    /\ pc = "done" /\ ~pretend
    /\ \E m \in 1..Len(log), n \in 1..Len(log) :
           /\ m < n /\ log[m].op = "mismatch" /\ log[n].op = "unlink"
           /\ Stat0(log[m].path).gid # Stat0(log[m].base).gid

\* C9: a fatal error of the mutation phase ends the run at that step: the
\* failed call is the last one made, the cursor does not move and nothing is
\* added to the total, no step follows, every call of a step is made at
\* most once, and what was applied stays (a duplicate deleted before its
\* link failed stays deleted).
C9_FatalAborts ==
    [][/\ pc # "aborted"
       /\ LET made == SubSeq(log', Len(log) + 1, Len(log'))
          IN  /\ \A m \in 1..Len(made), n \in 1..Len(made) :
                     m # n => made[m].op # made[n].op
              /\ (\E n \in 1..Len(made) : ~made[n].ok) <=> pc' = "aborted"
              /\ pc' = "aborted" =>
                     /\ \A n \in 1..Len(log') : log'[n].ok <=> n < Len(log')
                     /\ <<gi', fi'>> = <<gi, fi>> /\ saved' = saved
                     /\ dirs' = dirs /\ inode' = inode
                     /\ links' = IF made[1].ok THEN Unlink(links, file)
                                 ELSE links]_vars

C9_Witness ==
    /\ pc = "aborted" /\ Len(log) >= 4
    /\ log[Len(log)].op = "link" /\ ~log[Len(log)].ok
    /\ log[Len(log)].path \notin DOMAIN links
    /\ log[Len(log)].base \in DOMAIN links
    /\ links # Unlink(fs0.links, log[Len(log)].path)

\* C10: pruning in remove mode: after a live remove-mode run that completes,
\* a directory that held only duplicate files, all removed, is gone without
\* --keep and is there, empty, with --keep; a directory is only ever removed
\* as the immediate parent of a removed file, and never unless the run is a
\* live remove-mode run without --keep.
Entries0(d) == Entries(fs0.dirs, fs0.links, d)
OnlyRemovedDuplicates(d) ==
    /\ Entries0(d) # {}
    /\ \A e \in Entries0(d) : e \in DOMAIN fs0.links /\ e \notin DOMAIN links

C10_Pruning ==
    /\ (pc = "done" /\ ~pretend /\ remove) =>
           \A d \in fs0.dirs :
               OnlyRemovedDuplicates(d) =>
                   IF keep THEN d \in dirs /\ Entries(dirs, links, d) = {}
                   ELSE d \notin dirs
    /\ \A d \in fs0.dirs \ dirs :
           \E f \in DOMAIN fs0.links \ DOMAIN links : parent_path(f) = d
    /\ (pretend \/ ~remove \/ keep) => dirs = fs0.dirs

C10_Witness ==
    /\ pc = "done" /\ ~pretend /\ remove /\ ~keep
    /\ OnlyRemovedDuplicates(T) /\ T \notin dirs
    /\ S \in dirs /\ Entries(dirs, links, S) = {}

====
